---------------------------- MODULE Spec2Model ----------------------------
(***************************************************************************)
(* Model of the chat session of the PDF assistant: the App component       *)
(* (state idle / planning / waiting_approval / executing / completed), its *)
(* handlers handleSendMessage, executePlan, stopGeneration, cancelPlan,    *)
(* handleFilesSelected and handleRemoveFile, and the asynchronous          *)
(* exchanges they start.                                                   *)
(*                                                                         *)
(* An asynchronous handler invocation is a task.  A task runs from one     *)
(* await to the next in one step: the JavaScript event loop runs every     *)
(* continuation to completion, and a user event (a click, a key press) is  *)
(* only handled between two continuations.                                 *)
(*                                                                         *)
(* A text is a sequence of lexemes.  A lexeme stands for a run of          *)
(* characters that the scanners of the program treat as a unit: a fence    *)
(* (three backticks, with or without a tag), a complete JSON document, a   *)
(* word of prose.                                                          *)
(*                                                                         *)
(* A handler sees the state of the latest render: React renders between    *)
(* two user events.  A state updater (setMessages(prev => ...)) is applied *)
(* where it is called.  An exchange is seen from its caller: streamMessage *)
(* yields the deltas of a reply, then returns, or throws at any await.     *)
(* The custom MCQ settings panel, a further caller of handleSendMessage,   *)
(* and a send with a blank text, which returns at once, are left out.      *)
(*                                                                         *)
(* Spec is the session as the user drives it.  StreamSpec is one call of   *)
(* geminiService.streamMessage seen from inside: the routing of the files, *)
(* the attempts and their retries, the chunks it yields and the error it   *)
(* throws, with the answers of the service and of the File API, and the    *)
(* moment the user aborts, chosen freely.  outcomes, uploads and signalled *)
(* record what has happened in the call; streamMessage reads none of them. *)
(* An error always has a message.  RenderSpec is one model message whose   *)
(* text grows by the deltas of its reply, with extractHtml and the         *)
(* clean-up of the displayed text in MessageBubble as operators on that    *)
(* text, which is there a sequence of characters.  The cut of a displayed  *)
(* text above five million characters is left out.  BlocksSpec is the same *)
(* message with deltas that bring a fence, or the opening of a json or an  *)
(* html block, at a time, scanned by handleSendMessage for a plan as well. *)
(* DocSpec is one DocumentPreview from its mount on: the html its parent   *)
(* passes, the debounce timer, and the user who edits, saves and discards. *)
(*                                                                         *)
(* nTasks, nEvents, sessionNo, cancelled and the fields sess of a task and *)
(* pc = "done" / "failed" of a returned task record what has happened;     *)
(* the program does not read them.                                         *)
(***************************************************************************)
EXTENDS Integers, Sequences, FiniteSets, TLC

VARIABLES
    files,           \* useState<FileData[]>: the names of the uploaded files
    messages,        \* useState<Message[]>: the transcript
    appState,        \* useState<AppState>
    sentFileNames,   \* useState<Set<string>>
    currentPlan,     \* useState<ExecutionPlan | null>
    executionStep,   \* useState(0)
    abortRef,        \* abortControllerRef.current: 0 is null, t the controller task t made
    aborted,         \* the controllers on which abort() was called
    chatSession,     \* geminiService: chatSession is not null
    tasks,           \* the invocations of handleSendMessage and executePlan
    nTasks,          \* how many invocations were started
    sessionNo,       \* how many times a new file set restarted the conversation
    nEvents,         \* how many user events (clicks, key presses) were handled
    cancelled,       \* the plans that cancel discarded while pending approval
    transmitted,     \* the names of the held files whose request the service answered
    \* one call of geminiService.streamMessage(message, files), seen from inside
    smFiles,         \* the argument files: the sizeMB of each file
    smPc,            \* where the call is: the await it waits at, or how it ended
    attempt,         \* let attempt
    fileIx,          \* how many files the for loop of this attempt has handled
    parts,           \* const parts of this attempt
    pos,             \* how many chunks of result this attempt has taken
    yielded,         \* the chunks yielded to the caller, each with its attempt
    thrown,          \* the error thrown to the caller
    outcomes,        \* how each attempt made so far has ended
    uploads,         \* the calls of uploadToGemini in this attempt: file and outcome
    signalled,       \* the caller's abort controller was aborted
    \* one model message while its reply streams, as MessageBubble is given it
    msgText,         \* msg.text: the deltas appended so far
    \* one DocumentPreview, from its mount on
    initialHtml,     \* the prop htmlContent
    renderedContent, \* useState(initialHtml)
    isEditing,       \* useState(false)
    hasUserEdited,   \* useState(false)
    timer,           \* the pending timer of the debounce effect: the html it will set
    effectDue,       \* the prop has changed and the effect has not run again yet
    innerHTML,       \* containerRef.current.innerHTML, the content of the page shown
    nTyped           \* how many times the user has typed into the page

appVars == <<files, messages, appState, sentFileNames, currentPlan, executionStep,
             abortRef, aborted, chatSession, tasks, nTasks, sessionNo, nEvents,
             cancelled, transmitted>>

streamVars == <<smFiles, smPc, attempt, fileIx, parts, pos, yielded, thrown,
                outcomes, uploads, signalled>>

renderVars == <<msgText>>

docVars == <<initialHtml, renderedContent, isEditing, hasUserEdited, timer, effectDue,
             innerHTML, nTyped>>

vars == <<appVars, streamVars, renderVars, docVars>>

---------------------------------------------------------------------------
(* Bounds of the model *)

\* the user events of a behaviour: file selections and removals, sends,
\* approvals, stops and cancels
MaxEvents == 4

FileNames == {"f1"}
Tasks == 1..MaxEvents

---------------------------------------------------------------------------
(* Lexemes and texts *)

FenceJson == "[3 backticks]json"
FenceHtml == "[3 backticks]html"
Fence == "[3 backticks]"
Space == " "
PlanJson == "{\"title\":\"T\",\"steps\":[\"a\",\"b\"]}"
BadJson == "{\"title\":"
NullJson == "null"
EmptyStepsJson == "{\"title\":\"T\",\"steps\":[]}"

StoppedByUser == "\n\n**[Stopped by User]**"
StoppedMark == " [Stopped]"
ExecutionStopped == "\n\nEXECUTION STOPPED: "
PlanCancelled == "Plan cancelled."
Uploaded == "**Uploaded:**"
AddedMore == "Added more file(s)."

\* streamMessage's friendlyError: what an exchange throws to its caller
ErrorMessages == {"API Error"}

NoPlan == [oid |-> 0, title |-> "", steps |-> <<>>]
ThePlan(oid) == [oid |-> oid, title |-> "T", steps |-> <<"a", "b">>]

\* The replies of the model service to a request, each a sequence of
\* deltas: prose followed by a json block that is never closed, a plan, a
\* closed json block that does not parse, and a closed json block that
\* parses to null.
Replies ==
    { << <<"x">>, <<FenceJson, PlanJson>> >>,
      << <<FenceJson, PlanJson, Fence>> >>,
      << <<FenceJson, BadJson, Fence, "y">> >>,
      << <<FenceJson, NullJson, Fence>> >> }

\* The replies of the model service to the prompt of a plan step.
StepReplies == { << <<"s1">>, <<"s2">> >> }

StepHeader(i, step) == <<"**Step", ToString(i), ":**", step, "\n\n">>

IsFence(l) == l \in {Fence, FenceJson, FenceHtml}

\* What is left of a lexeme that starts with a fence once the fence is taken away.
AfterFence(l) ==
    IF l = FenceJson THEN <<"json">>
    ELSE IF l = FenceHtml THEN <<"html">>
    ELSE <<>>

Min(S) == CHOOSE x \in S : \A y \in S : x <= y

---------------------------------------------------------------------------
(* The scanners of handleSendMessage *)

\* the places of text, from place from on, that hold a json opening, a lexeme
\* that is no white space, a lexeme that starts with three backticks
JsonOpens(text, from) == {j \in from..Len(text) : text[j] = FenceJson}
NonSpaces(text, from) == {j \in from..Len(text) : text[j] # Space}
Fences(text, from) == {j \in from..Len(text) : IsFence(text[j])}

\* text without the white space at its end
TrimEnd(text) ==
    LET keep == NonSpaces(text, 1)
    IN  IF keep = {} THEN <<>>
        ELSE SubSeq(text, 1, CHOOSE j \in keep : \A k \in keep : k <= j)

\* text without the white space at its start
TrimStart(text) ==
    LET keep == NonSpaces(text, 1)
    IN  IF keep = {} THEN <<>> ELSE SubSeq(text, Min(keep), Len(text))

\* JsonMatch with a json block that the end of the text closes as well
JsonMatchToEnd(text) ==
    LET opens == JsonOpens(text, 1)
    IN  IF opens = {} THEN [found |-> FALSE, group |-> <<>>]
        ELSE LET o == Min(opens)
                 rest == NonSpaces(text, o + 1)
                 closes == Fences(text, o + 1) \cup {Len(text) + 1}
             IN  [found |-> TRUE,
                  group |-> IF rest = {} THEN <<>>
                            ELSE TrimEnd(SubSeq(text, Min(rest), Min(closes) - 1))]

\* fullResponse.match(/(fence)json\s*([\s\S]*?)\s*(fence)/): the first json
\* opening, the white space after it, the shortest content up to white space
\* and the next three backticks (those of a tagged fence included).
JsonMatch(text) ==
    LET opens == JsonOpens(text, 1)
    IN  IF opens = {} THEN [found |-> FALSE, group |-> <<>>]
        ELSE LET o == Min(opens)
                 rest == NonSpaces(text, o + 1)
                 closes == Fences(text, o + 1)
             IN  IF closes = {} THEN [found |-> FALSE, group |-> <<>>]
                 ELSE [found |-> TRUE,
                       group |-> TrimEnd(SubSeq(text, Min(rest), Min(closes) - 1))]

\* fullResponse.replace(/(fence)json[\s\S]*?(fence)/, ''): the first json
\* opening up to the next three backticks is cut out, once.
ReplaceJson(text) ==
    LET opens == JsonOpens(text, 1)
    IN  IF opens = {} THEN text
        ELSE LET o == Min(opens)
                 closes == Fences(text, o + 1)
             IN  IF closes = {} THEN text
                 ELSE SubSeq(text, 1, o - 1) \o AfterFence(text[Min(closes)])
                      \o SubSeq(text, Min(closes) + 1, Len(text))

\* JSON.parse(jsonMatch[1]): white space around the document is skipped; the
\* value of a complete document, an exception (ok = FALSE) for anything else.
\* oid is the identity of the object that the call makes; the value null is
\* NoPlan, as it is in currentPlan and planData.
JSONParse(group, oid) ==
    LET doc == TrimStart(TrimEnd(group))
    IN  IF doc = <<PlanJson>> THEN [ok |-> TRUE, value |-> ThePlan(oid)]
        ELSE IF doc = <<EmptyStepsJson>>
        THEN [ok |-> TRUE, value |-> [ThePlan(oid) EXCEPT !.steps = <<>>]]
        ELSE IF doc = <<NullJson>> THEN [ok |-> TRUE, value |-> NoPlan]
        ELSE [ok |-> FALSE, value |-> NoPlan]

---------------------------------------------------------------------------
(* Messages and tasks *)

\* uuidv4(): the n-th identifier that task t draws (task 0: the handlers
\* that are no task; their n is the place of the message in the transcript)
uuidv4(t, n) == <<t, n>>

Message(id, role, text, isStreaming) ==
    [id |-> id, role |-> role, text |-> text, isStreaming |-> isStreaming,
     isError |-> FALSE, planData |-> NoPlan]

\* prev.map(m => m.id === id ? { ...m, text } : m), and the like for the
\* other fields; AppendText is { ...m, text: m.text + suffix }
SetText(prev, id, text) ==
    [k \in 1..Len(prev) |->
        IF prev[k].id = id THEN [prev[k] EXCEPT !.text = text] ELSE prev[k]]
AppendText(prev, id, suffix) ==
    [k \in 1..Len(prev) |->
        IF prev[k].id = id THEN [prev[k] EXCEPT !.text = @ \o suffix] ELSE prev[k]]
EndStreaming(prev, id) ==
    [k \in 1..Len(prev) |->
        IF prev[k].id = id THEN [prev[k] EXCEPT !.isStreaming = FALSE] ELSE prev[k]]
SetErrorOfAll(prev, id) ==
    [k \in 1..Len(prev) |-> [prev[k] EXCEPT !.isError = TRUE]]
SetError(prev, id) ==
    [k \in 1..Len(prev) |->
        IF prev[k].id = id THEN [prev[k] EXCEPT !.isError = TRUE] ELSE prev[k]]
SetPlanData(prev, id, planData) ==
    [k \in 1..Len(prev) |->
        IF prev[k].id = id THEN [prev[k] EXCEPT !.planData = planData] ELSE prev[k]]

NoTask ==
    [kind |-> "none", pc |-> "free", plan |-> NoPlan, i |-> 0, msgId |-> <<0, 0>>,
     resp |-> <<>>, stream |-> <<>>, filesToSend |-> <<>>, sess |-> 0]

\* a task whose function has returned
Returned(kind) == [NoTask EXCEPT !.kind = kind, !.pc = "done"]

\* a task whose function has returned from its catch block
Failed(kind) == [NoTask EXCEPT !.kind = kind, !.pc = "failed"]

Range(seq) == {seq[k] : k \in 1..Len(seq)}

\* abortControllerRef.current?.signal.aborted
SignalAborted(ref, abortedSet) == ref # 0 /\ ref \in abortedSet

\* The service has answered the request of task t, a delta or the end of
\* the stream: the files of the request have reached it.  The files of a
\* conversation that a new file set has replaced do not count.
Answered(t) ==
    IF tasks[t].sess = sessionNo
    THEN transmitted \cup (Range(tasks[t].filesToSend) \cap Range(files))
    ELSE transmitted

\* a plan card is rendered for every message that carries planData
PlanCardShown == \E k \in 1..Len(messages) : messages[k].planData # NoPlan

AppInit ==
    /\ files = <<>>
    /\ messages = <<>>
    /\ appState = "idle"
    /\ sentFileNames = {}
    /\ currentPlan = NoPlan
    /\ executionStep = 0
    /\ abortRef = 0
    /\ aborted = {}
    /\ chatSession = FALSE
    /\ tasks = [t \in Tasks |-> NoTask]
    /\ nTasks = 0
    /\ sessionNo = 0
    /\ nEvents = 0
    /\ cancelled = {}
    /\ transmitted = {}

---------------------------------------------------------------------------
(* Files *)

\* handleFilesSelected: the files are small, so that the total stays under
\* MAX_PAYLOAD_SIZE.  A selection made while no file is held restarts the
\* conversation.
handleFilesSelected(newFiles) ==
    /\ nEvents < MaxEvents
    /\ nEvents' = nEvents + 1
    /\ files' = files \o newFiles
    /\ IF files = <<>>
       THEN /\ chatSession' = FALSE
            /\ sentFileNames' = {}
            /\ messages' = <<Message(uuidv4(0, 1), "model", <<Uploaded>>, FALSE)>>
            /\ sessionNo' = sessionNo + 1
       ELSE /\ messages' = Append(messages,
                   Message(uuidv4(0, Len(messages) + 1), "model", <<AddedMore>>, FALSE))
            /\ UNCHANGED <<chatSession, sentFileNames, sessionNo>>
    /\ transmitted' = IF files = <<>> THEN {} ELSE transmitted
    /\ UNCHANGED <<streamVars, renderVars, docVars, appState, currentPlan, executionStep, abortRef, aborted,
                   tasks, nTasks, cancelled>>

handleRemoveFile(index) ==
    /\ nEvents < MaxEvents
    /\ nEvents' = nEvents + 1
    /\ index \in 1..Len(files)
    /\ files' = SubSeq(files, 1, index - 1) \o SubSeq(files, index + 1, Len(files))
    /\ sentFileNames' = sentFileNames \ {files[index]}
    /\ transmitted' = transmitted \ {files[index]}
    /\ UNCHANGED <<streamVars, renderVars, docVars, messages, appState, currentPlan, executionStep, abortRef,
                   aborted, chatSession, tasks, nTasks, sessionNo, cancelled>>

---------------------------------------------------------------------------
(* handleSendMessage *)

\* handleSendMessage(text) with a text that is not blank, up to its first
\* await: the first step of the for await over streamMessage(text,
\* filesToSend), which makes the chat session when there is none.
handleSendMessage ==
    /\ nEvents < MaxEvents
    /\ nEvents' = nEvents + 1
    /\ appState # "executing"
    /\ files # <<>>
    /\ \E reply \in Replies :
         LET t == nTasks + 1
             userMessage == Message(uuidv4(t, 0), "user", <<"text">>, FALSE)
             aiMsgId == uuidv4(t, 1)
         IN  /\ nTasks' = t
             /\ abortRef' = t
             /\ messages' = messages \o
                    <<userMessage, Message(aiMsgId, "model", <<>>, TRUE)>>
             /\ appState' = "planning"
             /\ chatSession' = TRUE
             /\ tasks' = [tasks EXCEPT ![t] =
                    [kind |-> "send", pc |-> "run", plan |-> NoPlan, i |-> 0,
                     msgId |-> aiMsgId, resp |-> <<>>, stream |-> reply,
                     filesToSend |-> SelectSeq(files, LAMBDA f : f \notin sentFileNames),
                     sess |-> sessionNo]]
    /\ UNCHANGED <<streamVars, renderVars, docVars, transmitted, files, sentFileNames, currentPlan,
                   executionStep, aborted,
                   sessionNo, cancelled>>

\* The send button: rendered while the state is idle or waiting_approval,
\* disabled unless the state is idle and a file is held.
SendButton ==
    /\ appState = "idle"
    /\ files # <<>>
    /\ handleSendMessage

\* handleKeyDown, Enter in the textarea, which is disabled when no file is
\* held or the state is none of idle, planning, executing.
handleKeyDown ==
    /\ files # <<>>
    /\ appState \in {"idle", "planning", "executing"}
    /\ handleSendMessage

\* handleQuickAction on a FeatureCard, disabled unless idle with a file held
handleQuickAction ==
    /\ files # <<>>
    /\ appState = "idle"
    /\ handleSendMessage

\* SendAfterLoop with a return in the catch of JSON.parse: after a parse
\* failure the message is left streaming and the state is left as it is.
SendAfterLoopReturnsInCatch(t, fullResponse) ==
    LET me == tasks[t]
        shown == SetText(messages, me.msgId, fullResponse)
        jsonMatch == JsonMatch(fullResponse)
        parsed == JSONParse(jsonMatch.group, t)
    IN  /\ tasks' = [tasks EXCEPT ![t] = Returned("send")]
        /\ abortRef' = 0
        /\ IF SignalAborted(abortRef, aborted)
           THEN /\ messages' = shown
                /\ UNCHANGED <<sentFileNames, currentPlan, appState>>
           ELSE /\ sentFileNames' = sentFileNames \cup Range(me.filesToSend)
                /\ IF jsonMatch.found /\ parsed.ok
                   THEN /\ currentPlan' = parsed.value
                        /\ appState' = "waiting_approval"
                        /\ messages' = SetPlanData(
                               SetText(EndStreaming(shown, me.msgId), me.msgId,
                                       ReplaceJson(fullResponse)),
                               me.msgId, parsed.value)
                   ELSE IF jsonMatch.found
                   THEN /\ messages' = shown
                        /\ UNCHANGED <<appState, currentPlan>>
                   ELSE /\ messages' = EndStreaming(shown, me.msgId)
                        /\ appState' = "idle"
                        /\ UNCHANGED currentPlan
        /\ transmitted' = Answered(t)
        /\ UNCHANGED <<streamVars, renderVars, docVars, files, executionStep, aborted, chatSession, nTasks,
                       sessionNo, nEvents, cancelled>>

\* SendAfterLoop without the final update of the message text
SendAfterLoopNoFinalUpdate(t, fullResponse) ==
    LET me == tasks[t]
        shown == messages
        jsonMatch == JsonMatch(fullResponse)
        parsed == JSONParse(jsonMatch.group, t)
    IN  /\ tasks' = [tasks EXCEPT ![t] = Returned("send")]
        /\ abortRef' = 0
        /\ IF SignalAborted(abortRef, aborted)
           THEN /\ messages' = shown
                /\ UNCHANGED <<sentFileNames, currentPlan, appState>>
           ELSE /\ sentFileNames' = sentFileNames \cup Range(me.filesToSend)
                /\ IF jsonMatch.found /\ parsed.ok
                   THEN /\ currentPlan' = parsed.value
                        /\ appState' = "waiting_approval"
                        /\ messages' = SetPlanData(
                               SetText(EndStreaming(shown, me.msgId), me.msgId,
                                       ReplaceJson(fullResponse)),
                               me.msgId, parsed.value)
                   ELSE /\ messages' = EndStreaming(shown, me.msgId)
                        /\ appState' = "idle"
                        /\ UNCHANGED currentPlan
        /\ transmitted' = Answered(t)
        /\ UNCHANGED <<streamVars, renderVars, docVars, files, executionStep, aborted, chatSession, nTasks,
                       sessionNo, nEvents, cancelled>>

\* handleSendMessage after its loop over the stream (lines 309-339), then
\* its finally block.
SendAfterLoop(t, fullResponse) ==
    LET me == tasks[t]
        shown == SetText(messages, me.msgId, fullResponse)
        jsonMatch == JsonMatch(fullResponse)
        parsed == JSONParse(jsonMatch.group, t)
    IN  /\ tasks' = [tasks EXCEPT ![t] = Returned("send")]
        /\ abortRef' = 0
        /\ IF SignalAborted(abortRef, aborted)
           THEN /\ messages' = shown
                /\ UNCHANGED <<sentFileNames, currentPlan, appState>>
           ELSE /\ sentFileNames' = sentFileNames \cup Range(me.filesToSend)
                /\ IF jsonMatch.found /\ parsed.ok
                   THEN /\ currentPlan' = parsed.value
                        /\ appState' = "waiting_approval"
                        /\ messages' = SetPlanData(
                               SetText(EndStreaming(shown, me.msgId), me.msgId,
                                       ReplaceJson(fullResponse)),
                               me.msgId, parsed.value)
                   ELSE /\ messages' = EndStreaming(shown, me.msgId)
                        /\ appState' = "idle"
                        /\ UNCHANGED currentPlan
        /\ transmitted' = Answered(t)
        /\ UNCHANGED <<streamVars, renderVars, docVars, files, executionStep, aborted, chatSession, nTasks,
                       sessionNo, nEvents, cancelled>>

\* One delta of the stream reaches the loop of handleSendMessage (lines
\* 297-307).  elapsed: more than 200 ms have passed since the last update.
SendChunk(t) ==
    /\ tasks[t].kind = "send" /\ tasks[t].pc = "run"
    /\ tasks[t].stream # <<>>
    /\ IF SignalAborted(abortRef, aborted)
       THEN SendAfterLoop(t, tasks[t].resp)
       ELSE LET fullResponse == tasks[t].resp \o Head(tasks[t].stream)
            IN  /\ tasks' = [tasks EXCEPT ![t].resp = fullResponse,
                                          ![t].stream = Tail(tasks[t].stream)]
                /\ \E elapsed \in BOOLEAN :
                     messages' = IF elapsed
                                 THEN SetText(messages, tasks[t].msgId, fullResponse)
                                 ELSE messages
                /\ transmitted' = Answered(t)
                /\ UNCHANGED <<streamVars, renderVars, docVars, files, appState, sentFileNames, currentPlan,
                               executionStep, abortRef, aborted, chatSession, nTasks,
                               sessionNo, nEvents, cancelled>>

\* The stream of handleSendMessage ends: streamMessage returns.
SendEnd(t) ==
    /\ tasks[t].kind = "send" /\ tasks[t].pc = "run"
    /\ tasks[t].stream = <<>>
    /\ SendAfterLoop(t, tasks[t].resp)

\* streamMessage throws into handleSendMessage: its catch and finally blocks
SendCatch(t) ==
    /\ tasks[t].kind = "send" /\ tasks[t].pc = "run"
    /\ \E error \in ErrorMessages :
         messages' = SetText(SetError(EndStreaming(messages, tasks[t].msgId),
                                      tasks[t].msgId),
                             tasks[t].msgId, <<error>>)
    /\ appState' = "idle"
    /\ abortRef' = 0
    /\ tasks' = [tasks EXCEPT ![t] = Failed("send")]
    /\ UNCHANGED <<streamVars, renderVars, docVars, transmitted, files, sentFileNames, currentPlan,
                   executionStep, aborted,
                   chatSession, nTasks, sessionNo, nEvents, cancelled>>

---------------------------------------------------------------------------
(* executePlan *)

\* executePlan after its loop (lines 416-419)
PlanAfterLoop(t, msgs) ==
    /\ messages' = msgs
    /\ appState' = "completed"
    /\ executionStep' = 0
    /\ currentPlan' = NoPlan
    /\ abortRef' = 0
    /\ tasks' = [tasks EXCEPT ![t] = Returned("plan")]
    /\ UNCHANGED chatSession

\* executePlan at the head of its loop with index i (lines 362-381), up to
\* the await of the first step of the for await over streamMessage(prompt,
\* []).  plan is the currentPlan of the closure, ref the abort controller
\* and state the appState that the steps before have left, msgs the
\* transcript they have left.  sess records the conversation in which the
\* run began.
PlanLoop(t, plan, i, ref, state, msgs) ==
    IF i < Len(plan.steps) /\ ~SignalAborted(ref, aborted)
    THEN LET stepMsgId == uuidv4(t, i + 1)
         IN  /\ executionStep' = i + 1
             /\ messages' = Append(msgs,
                    Message(stepMsgId, "model", StepHeader(i + 1, plan.steps[i + 1]), TRUE))
             /\ chatSession' = TRUE
             /\ appState' = state
             /\ abortRef' = ref
             /\ \E reply \in StepReplies :
                  tasks' = [tasks EXCEPT ![t] =
                      [kind |-> "plan", pc |-> "run", plan |-> plan, i |-> i,
                       msgId |-> stepMsgId, resp |-> <<>>, stream |-> reply,
                       filesToSend |-> <<>>,
                       sess |-> IF i = 0 THEN sessionNo ELSE tasks[t].sess]]
             /\ UNCHANGED currentPlan
    ELSE PlanAfterLoop(t, msgs)

\* executePlan, the approve button of a plan card, up to its first await
executePlan ==
    /\ PlanCardShown
    /\ nEvents < MaxEvents
    /\ nEvents' = nEvents + 1
    /\ currentPlan # NoPlan
    /\ LET t == nTasks + 1
       IN  /\ nTasks' = t
           /\ PlanLoop(t, currentPlan, 0, t, "executing",  messages)
    /\ UNCHANGED <<streamVars, renderVars, docVars, transmitted, files, sentFileNames, aborted, sessionNo,
                   cancelled>>

\* the text of the message of the step that task t is at
StepText(t, stepResponse) ==
    StepHeader(tasks[t].i + 1, tasks[t].plan.steps[tasks[t].i + 1]) \o stepResponse

\* executePlan after the loop over the stream of a step (lines 393-401),
\* then the head of the loop for the next step
StepAfterLoop(t, stepResponse) ==
    LET me == tasks[t]
        shown == SetText(messages, me.msgId, StepText(t, stepResponse))
    IN  /\ IF SignalAborted(abortRef, aborted)
           THEN PlanAfterLoop(t, AppendText(EndStreaming(shown, me.msgId),
                                            me.msgId, <<StoppedMark>>))
           ELSE PlanLoop(t, me.plan, me.i + 1, abortRef, appState,
                    EndStreaming(shown, me.msgId))
        /\ UNCHANGED <<streamVars, renderVars, docVars, transmitted, files, sentFileNames, aborted, nTasks,
                       sessionNo, nEvents, cancelled>>

\* One delta of the stream of a step reaches the loop (lines 381-391).
StepChunk(t) ==
    /\ tasks[t].kind = "plan" /\ tasks[t].pc = "run"
    /\ tasks[t].stream # <<>>
    /\ IF SignalAborted(abortRef, aborted)
       THEN StepAfterLoop(t, tasks[t].resp)
       ELSE LET stepResponse == tasks[t].resp \o Head(tasks[t].stream)
            IN  /\ tasks' = [tasks EXCEPT ![t].resp = stepResponse,
                                          ![t].stream = Tail(tasks[t].stream)]
                /\ \E elapsed \in BOOLEAN :
                     messages' = IF elapsed
                                 THEN SetText(messages, tasks[t].msgId,
                                              StepText(t, stepResponse))
                                 ELSE messages
                /\ UNCHANGED <<streamVars, renderVars, docVars, transmitted, files, appState, sentFileNames,
                               currentPlan,
                               executionStep, abortRef, aborted, chatSession, nTasks,
                               sessionNo, nEvents, cancelled>>

\* The stream of a step ends: streamMessage returns.
StepEnd(t) ==
    /\ tasks[t].kind = "plan" /\ tasks[t].pc = "run"
    /\ tasks[t].stream = <<>>
    /\ StepAfterLoop(t, tasks[t].resp)

\* StepCatch without its setAppState('idle')
StepCatchKeepsState(t) ==
    /\ tasks[t].kind = "plan" /\ tasks[t].pc = "run"
    /\ \E error \in ErrorMessages :
         messages' = AppendText(SetError(EndStreaming(messages, tasks[t].msgId),
                                         tasks[t].msgId),
                                tasks[t].msgId, <<ExecutionStopped, error>>)
    /\ abortRef' = 0
    /\ tasks' = [tasks EXCEPT ![t] = Failed("plan")]
    /\ UNCHANGED <<streamVars, renderVars, docVars, transmitted, files, appState, sentFileNames, currentPlan,
                   executionStep, aborted,
                   chatSession, nTasks, sessionNo, nEvents, cancelled>>

\* streamMessage throws into a step: the catch block of executePlan
StepCatch(t) ==
    /\ tasks[t].kind = "plan" /\ tasks[t].pc = "run"
    /\ \E error \in ErrorMessages :
         messages' = AppendText(SetError(EndStreaming(messages, tasks[t].msgId),
                                         tasks[t].msgId),
                                tasks[t].msgId, <<ExecutionStopped, error>>)
    /\ appState' = "idle"
    /\ abortRef' = 0
    /\ tasks' = [tasks EXCEPT ![t] = Failed("plan")]
    /\ UNCHANGED <<streamVars, renderVars, docVars, transmitted, files, sentFileNames, currentPlan,
                   executionStep, aborted,
                   chatSession, nTasks, sessionNo, nEvents, cancelled>>

---------------------------------------------------------------------------
(* stopGeneration and cancelPlan *)

\* stopGeneration, the stop button, which is rendered in place of the send
\* button while the state is neither idle nor waiting_approval
stopGeneration ==
    /\ nEvents < MaxEvents
    /\ nEvents' = nEvents + 1
    /\ appState \notin {"idle", "waiting_approval"}
    /\ IF abortRef # 0
       THEN aborted' = aborted \cup {abortRef}
       ELSE UNCHANGED aborted
    /\ abortRef' = 0
    /\ appState' = "idle"
    /\ messages' =
         IF messages # <<>> /\ messages[Len(messages)].role = "model"
                            /\ messages[Len(messages)].isStreaming
         THEN [messages EXCEPT ![Len(messages)] =
                  [@ EXCEPT !.isStreaming = FALSE, !.text = @ \o <<StoppedByUser>>]]
         ELSE messages
    /\ UNCHANGED <<streamVars, renderVars, docVars, transmitted, files, sentFileNames, currentPlan,
                   executionStep, chatSession,
                   tasks, nTasks, sessionNo, cancelled>>

\* cancelPlan without its setCurrentPlan(null)
cancelPlanKeepsPlan ==
    /\ PlanCardShown
    /\ nEvents < MaxEvents
    /\ nEvents' = nEvents + 1
    /\ appState' = "idle"
    /\ messages' = Append(messages,
           Message(uuidv4(0, Len(messages) + 1), "model", <<PlanCancelled>>, FALSE))
    /\ cancelled' = IF appState = "waiting_approval" /\ currentPlan # NoPlan
                    THEN cancelled \cup {currentPlan.oid}
                    ELSE cancelled
    /\ UNCHANGED <<streamVars, renderVars, docVars, transmitted, files, sentFileNames, currentPlan,
                   executionStep, abortRef, aborted,
                   chatSession, tasks, nTasks, sessionNo>>

\* cancelPlan, the cancel button of a plan card
cancelPlan ==
    /\ PlanCardShown
    /\ nEvents < MaxEvents
    /\ nEvents' = nEvents + 1
    /\ appState' = "idle"
    /\ currentPlan' = NoPlan
    /\ messages' = Append(messages,
           Message(uuidv4(0, Len(messages) + 1), "model", <<PlanCancelled>>, FALSE))
    /\ cancelled' = IF appState = "waiting_approval" /\ currentPlan # NoPlan
                    THEN cancelled \cup {currentPlan.oid}
                    ELSE cancelled
    /\ UNCHANGED <<streamVars, renderVars, docVars, transmitted, files, sentFileNames, executionStep,
                   abortRef, aborted,
                   chatSession, tasks, nTasks, sessionNo>>

---------------------------------------------------------------------------
(* geminiService.streamMessage, seen from inside *)

\* the files of one call
MaxFiles == 2

\* sizeMB of a file: data.length * 0.75 / (1024 * 1024)
FileSizes == {8, 9, 10, 18}

maxAttempts == 3
InlineThresholdMB == 9
InlineFallbackMB == 18

\* What the service or the network answers to a request or an upload that
\* fails: kind is what has gone wrong, status is error.status, and has is
\* the set of the texts, among those streamMessage searches for, that
\* error.message includes.  The message of a token limit error states the
\* token count, here 1500000.
NoError == [kind |-> "none", status |-> "", has |-> {}]
Overloaded == [kind |-> "overloaded", status |-> "", has |-> {"503"}]
Unreachable == [kind |-> "network", status |-> "UNKNOWN", has |-> {"http status code: 0"}]
SafetyRejected == [kind |-> "safety", status |-> "", has |-> {"SAFETY"}]
TokenLimit == [kind |-> "token_limit", status |-> "",
               has |-> {"token count exceeds", "500"}]
PayloadTooLarge == [kind |-> "payload_too_large", status |-> "", has |-> {"413"}]
ServiceErrors == {Overloaded, Unreachable, SafetyRejected, TokenLimit, PayloadTooLarge}

Transient(kind) == kind \in {"network", "overloaded", "rate_limit"}

\* the chunks of the result of one attempt; chunk.text may be empty
AttemptReply == <<"a", "", "b">>

\* new Error(`File upload failed and file is too large for inline fallback
\* (...MB). API Error: ${uploadError.message}`) (line 221): its message
\* includes that of the upload error, and it has no status.  The catch block
\* turns it into `API Error: ${error.message}` when no other text is found.
FileUploadFailed == "File upload failed and file is too large for inline fallback"
AttachmentTooLarge == "API Error: File upload failed and file is too large for inline fallback"
TooLargeError(uploadError) ==
    [kind |-> "attachment_too_large", status |-> "",
     has |-> uploadError.has \cup {FileUploadFailed}]

\* the retry decision of the catch block (lines 259-262)
isNetworkError(error) == "http status code: 0" \in error.has \/ error.status = "UNKNOWN"
isServerError(error) == error.has \cap {"503", "500", "429"} # {}

\* friendlyError (lines 269-290), for an error that has a message
friendlyError(error) ==
    IF "token count exceeds" \in error.has THEN "Token Limit Exceeded"
    ELSE IF "Document size exceeds" \in error.has THEN "File Too Large"
    ELSE IF "SAFETY" \in error.has THEN "Safety Filter Triggered"
    ELSE IF "http status code: 0" \in error.has THEN "Network Connection Error"
    ELSE IF "413" \in error.has THEN "Payload Too Large"
    ELSE IF "429" \in error.has THEN "Free Tier Limit Reached"
    ELSE IF FileUploadFailed \in error.has THEN AttachmentTooLarge
    ELSE "API Error"

\* the upload decision with the threshold itself sent to the File API
NeedsUploadFromThreshold(sizeMB) == sizeMB >= InlineThresholdMB

\* if (sizeMB > 9): the file goes to the File API
NeedsUpload(sizeMB) == sizeMB > InlineThresholdMB

inlineData(ix) == [kind |-> "inlineData", file |-> ix]
fileData(ix) == [kind |-> "fileData", file |-> ix]

\* The for loop over files from the file after ix on, up to its next await:
\* the upload of a large file, or, after the last file, sendMessageStream.
RECURSIVE Resolve(_, _, _)
Resolve(fs, ps, ix) ==
    IF ix = Len(fs) THEN [pc |-> "request", parts |-> ps, fileIx |-> ix]
    ELSE IF NeedsUpload(fs[ix + 1]) THEN [pc |-> "upload", parts |-> ps, fileIx |-> ix]
    ELSE Resolve(fs, Append(ps, inlineData(ix + 1)), ix + 1)

StreamInit ==
    /\ smFiles = <<>>
    /\ smPc = "idle"
    /\ attempt = 0
    /\ fileIx = 0
    /\ parts = <<>>
    /\ pos = 0
    /\ yielded = <<>>
    /\ thrown = ""
    /\ outcomes = <<>>
    /\ uploads = {}
    /\ signalled = FALSE

\* a model message starts with an empty text (PlanPreview.tsx, text: '')
RenderInit == msgText = <<>>

\* Contents of a document: the n-th html the parent has passed, or what
\* the page holds after the user has typed into it for the n-th time;
\* large says that its length is above CONTENT_LIMIT.
Content(by, n, large) == [by |-> by, n |-> n, large |-> large]

NoTimer == Content("none", 0, FALSE)

\* if (!isEditing && !hasUserEdited) with the test of hasUserEdited left out
SyncWantedUnlessEditing(editing, edited) == ~editing

\* if (!isEditing && !hasUserEdited) of the debounce effect
SyncWanted(editing, edited) == ~editing /\ ~edited

\* The debounce effect runs for the html and the flags of a render: the
\* clean-up of the run before has cleared its timer, and a new timer is
\* set if the condition holds.
RunEffect(html, editing, edited) ==
    IF SyncWanted(editing, edited) THEN html ELSE NoTimer

\* A DocumentPreview is mounted with the first html of a block, which is
\* below the limit, and its effect has run once.
DocInit ==
    /\ initialHtml = Content("ai", 1, FALSE)
    /\ renderedContent = Content("ai", 1, FALSE)
    /\ isEditing = FALSE
    /\ hasUserEdited = FALSE
    /\ timer = RunEffect(Content("ai", 1, FALSE), FALSE, FALSE)
    /\ effectDue = FALSE
    /\ innerHTML = Content("ai", 1, FALSE)
    /\ nTyped = 0

Init == AppInit /\ StreamInit /\ RenderInit /\ DocInit

\* the try block from its start to its first await
TryBlock(fs) ==
    LET r == Resolve(fs, <<>>, 0)
    IN  /\ smPc' = r.pc
        /\ parts' = r.parts
        /\ fileIx' = r.fileIx
        /\ pos' = 0

\* streamMessage(message, files) is called and runs to its first await
streamMessage(fs) ==
    /\ smPc = "idle"
    /\ smFiles' = fs
    /\ TryBlock(fs)
    /\ UNCHANGED <<appVars, renderVars, docVars, attempt, yielded, thrown, outcomes, uploads, signalled>>

\* the catch block (lines 254-293): retry after a delay, or throw
Catch(error) ==
    /\ attempt' = attempt + 1
    /\ outcomes' = Append(outcomes, error.kind)
    /\ parts' = <<>>
    /\ fileIx' = 0
    /\ pos' = 0
    /\ uploads' = {}
    /\ IF (isNetworkError(error) \/ isServerError(error)) /\ attempt + 1 < maxAttempts
       THEN smPc' = "delay" /\ UNCHANGED thrown
       ELSE smPc' = "thrown" /\ thrown' = friendlyError(error)

\* uploadToGemini returns the metadata of the file
UploadReturns ==
    /\ smPc = "upload"
    /\ uploads' = uploads \cup {[file |-> fileIx + 1, ok |-> TRUE]}
    /\ LET r == Resolve(smFiles, Append(parts, fileData(fileIx + 1)), fileIx + 1)
       IN  smPc' = r.pc /\ parts' = r.parts /\ fileIx' = r.fileIx
    /\ UNCHANGED <<appVars, renderVars, docVars, smFiles, attempt, pos, yielded, thrown, outcomes, signalled>>

\* uploadToGemini throws: inline fallback under 18 MB, else an error whose
\* message includes that of the upload error
UploadThrows(uploadError) ==
    /\ smPc = "upload"
    /\ IF smFiles[fileIx + 1] < InlineFallbackMB
       THEN /\ LET r == Resolve(smFiles, Append(parts, inlineData(fileIx + 1)),
                                 fileIx + 1)
               IN  smPc' = r.pc /\ parts' = r.parts /\ fileIx' = r.fileIx
            /\ uploads' = uploads \cup {[file |-> fileIx + 1, ok |-> FALSE]}
            /\ UNCHANGED <<attempt, pos, thrown, outcomes>>
       ELSE Catch(TooLargeError(uploadError))
    /\ UNCHANGED <<appVars, renderVars, docVars, smFiles, yielded, signalled>>

\* chatSession.sendMessageStream resolves: the for await over result begins
RequestReturns ==
    /\ smPc = "request"
    /\ smPc' = "stream"
    /\ UNCHANGED <<appVars, renderVars, docVars, smFiles, attempt, fileIx, parts, pos, yielded, thrown,
                   outcomes, uploads, signalled>>

\* sendMessageStream rejects
RequestThrows(error) ==
    /\ smPc = "request"
    /\ Catch(error)
    /\ UNCHANGED <<appVars, renderVars, docVars, smFiles, yielded, signalled>>

\* one chunk of result: yielded unless its text is empty
Chunk ==
    /\ smPc = "stream"
    /\ pos < Len(AttemptReply)
    /\ pos' = pos + 1
    /\ yielded' = IF AttemptReply[pos + 1] # ""
                  THEN Append(yielded, [attempt |-> attempt, text |-> AttemptReply[pos + 1]])
                  ELSE yielded
    /\ UNCHANGED <<appVars, renderVars, docVars, smFiles, smPc, attempt, fileIx, parts, thrown, outcomes,
                   uploads, signalled>>

\* result is exhausted: return
StreamReturns ==
    /\ smPc = "stream"
    /\ pos = Len(AttemptReply)
    /\ smPc' = "returned"
    /\ outcomes' = Append(outcomes, "ok")
    /\ UNCHANGED <<appVars, renderVars, docVars, smFiles, attempt, fileIx, parts, pos, yielded, thrown,
                   uploads, signalled>>

\* the for await over result throws
StreamThrows(error) ==
    /\ smPc = "stream"
    /\ Catch(error)
    /\ UNCHANGED <<appVars, renderVars, docVars, smFiles, yielded, signalled>>

\* await delay(1000 * attempt) is over: continue, the next attempt
DelayOver ==
    /\ smPc = "delay"
    /\ TryBlock(smFiles)
    /\ UNCHANGED <<appVars, renderVars, docVars, smFiles, attempt, yielded, thrown, outcomes, uploads,
                   signalled>>

\* abortControllerRef.current.abort() in stopGeneration, while the call runs
abort ==
    /\ smPc \in {"upload", "request", "stream", "delay"}
    /\ ~signalled
    /\ signalled' = TRUE
    /\ UNCHANGED <<appVars, renderVars, docVars, smFiles, smPc, attempt, fileIx, parts, pos, yielded,
                   thrown, outcomes, uploads>>

\* the sequences over S of length at most n
SeqsUpTo(S, n) == UNION {[1..k -> S] : k \in 0..n}

StreamNext ==
    \/ \E fs \in SeqsUpTo(FileSizes, MaxFiles) : streamMessage(fs)
    \/ UploadReturns
    \/ \E error \in ServiceErrors : UploadThrows(error)
    \/ RequestReturns
    \/ \E error \in ServiceErrors : RequestThrows(error)
    \/ Chunk
    \/ StreamReturns
    \/ \E error \in ServiceErrors : StreamThrows(error)
    \/ DelayOver
    \/ abort

StreamSpec == Init /\ [][StreamNext]_vars

---------------------------------------------------------------------------

Next ==
    \/ \E f \in FileNames : handleFilesSelected(<<f>>)
    \/ \E index \in 1..Len(files) : handleRemoveFile(index)
    \/ SendButton
    \/ handleKeyDown
    \/ handleQuickAction
    \/ \E t \in Tasks : SendChunk(t)
    \/ \E t \in Tasks : SendEnd(t)
    \/ \E t \in Tasks : SendCatch(t)
    \/ executePlan
    \/ \E t \in Tasks : StepChunk(t)
    \/ \E t \in Tasks : StepEnd(t)
    \/ \E t \in Tasks : StepCatch(t)
    \/ stopGeneration
    \/ cancelPlan

Spec == Init /\ [][Next]_vars

---------------------------------------------------------------------------
(* One model message while its reply streams, and what MessageBubble makes *)
(* of its text                                                             *)

\* Here a text is a sequence of characters, as extractHtml and the display
\* clean-up scan it.  The letters of a tag are taken as one character: no
\* scan of the program stops inside a tag.
MaxLen == 6

Tick == "[backtick]"
Html == "html"
Json == "json"

\* const endMarker, and the three backticks the clean-up looks for
endMarker == <<Tick, Tick, Tick>>

\* const startMarker, const openTag
startMarker == <<Tick, Tick, Tick, Html>>

\* the deltas of a reply: a delta ends anywhere, so a fence may come whole
\* or one backtick at a time
Deltas == { <<Tick>>, endMarker, <<Html>>, <<Space>>, <<"x">> }

RECURSIVE Join(_)
Join(deltas) == IF deltas = <<>> THEN <<>> ELSE Head(deltas) \o Join(Tail(deltas))

\* msg.text
MsgChars == Join(msgText)

\* pat stands in text at index i
At(text, i, pat) ==
    /\ i >= 1 /\ i + Len(pat) - 1 <= Len(text)
    /\ \A k \in 1..Len(pat) : text[i + k - 1] = pat[k]

\* text.indexOf(pat, from), with indexes from 1, and 0 where JavaScript
\* gives -1
indexOf(text, pat, from) ==
    LET hits == {i \in from..Len(text) : At(text, i, pat)}
    IN  IF hits = {} THEN 0 ELSE Min(hits)

\* the first opening of a block of either tag, in place of the first html
\* opening
HtmlMatchAnyTag(text) ==
    LET hits == {i \in 1..Len(text) :
                    At(text, i, startMarker) \/ At(text, i, <<Tick, Tick, Tick, Json>>)}
    IN  IF hits = {} THEN 0 ELSE Min(hits)

\* match.index of text.match(/[3 backticks]html\s*/): 0 when there is no match
HtmlMatch(text) == indexOf(text, startMarker, 1)

\* the content starts after the last whitespace of the text, not after the
\* whitespace that follows the tag
contentStartIndexLastSpace(text) ==
    LET after == HtmlMatch(text) + Len(startMarker)
        spaces == {i \in after..Len(text) : text[i] = Space}
    IN  IF spaces = {} THEN after ELSE (CHOOSE i \in spaces : \A j \in spaces : j <= i) + 1

\* the content starts at the end of the tag, whitespace included
contentStartIndexAtTag(text) == HtmlMatch(text) + Len(startMarker)

\* match.index + match[0].length: \s* takes all the whitespace after the tag
contentStartIndex(text) ==
    LET after == HtmlMatch(text) + Len(startMarker)
        rest == {i \in after..Len(text) : text[i] # Space}
    IN  IF rest = {} THEN Len(text) + 1 ELSE Min(rest)

\* the last three backticks after the content start, in place of the first
endIndexLast(text) ==
    LET hits == {i \in contentStartIndex(text)..Len(text) : At(text, i, endMarker)}
    IN  IF hits = {} THEN 0 ELSE CHOOSE i \in hits : \A j \in hits : j <= i

\* const endIndex = text.indexOf(endMarker, contentStartIndex)
endIndex(text) == indexOf(text, endMarker, contentStartIndex(text))

\* the value null
null == <<"null">>

\* the block of text was found and is not closed / is closed
HtmlOpen(text) == HtmlMatch(text) # 0 /\ endIndex(text) = 0
HtmlClosed(text) == HtmlMatch(text) # 0 /\ endIndex(text) # 0

extractHtml(text) ==
    IF HtmlMatch(text) = 0
    THEN null
    ELSE IF endIndex(text) # 0
         THEN SubSeq(text, contentStartIndex(text), endIndex(text) - 1)
         ELSE SubSeq(text, contentStartIndex(text), Len(text))

\* text.replace(/[3 backticks]tag[\s\S]*?[3 backticks]/, ''): the leftmost
\* match, ended at the first three backticks after the tag, is taken out
replaceBlock(text, tag) ==
    LET open == <<Tick, Tick, Tick, tag>>
        starts == {i \in 1..Len(text) :
                      At(text, i, open) /\ indexOf(text, endMarker, i + Len(open)) # 0}
    IN  IF starts = {}
        THEN text
        ELSE LET i == Min(starts)
                 e == indexOf(text, endMarker, i + Len(open))
             IN  SubSeq(text, 1, i - 1) \o SubSeq(text, e + Len(endMarker), Len(text))

\* if (htmlContent): null and the empty string are falsy
Truthy(content) == content # null /\ content # <<>>

\* displayFullText of MessageBubble for a model message of this text
displayFullText(text) ==
    LET closedRemoved == replaceBlock(text, Html)
        openIndex == indexOf(closedRemoved, startMarker, 1)
        openRemoved ==
            IF /\ openIndex # 0
               /\ indexOf(closedRemoved, endMarker, openIndex + Len(startMarker)) = 0
            THEN SubSeq(closedRemoved, 1, openIndex - 1)
            ELSE closedRemoved
    IN  replaceBlock(IF Truthy(extractHtml(text)) THEN openRemoved ELSE text, Json)

\* fullResponse += chunk, and the message is given the new text
AppendDelta(delta) ==
    /\ Len(msgText) < MaxLen
    /\ msgText' = Append(msgText, delta)
    /\ UNCHANGED <<appVars, streamVars, docVars>>

RenderNext == \E delta \in Deltas : AppendDelta(delta)

RenderSpec == Init /\ [][RenderNext]_vars

\* A reply as handleSendMessage and MessageBubble both scan it, with the
\* deltas taken fence by fence: the opening of a json block, the opening
\* of an html block, three backticks, a space, one of two characters of
\* content.
BlockDeltas ==
    { <<Tick, Tick, Tick, Json>>, startMarker, endMarker, <<Space>>, <<"x">>, <<"y">> }

\* jsonMatch[1] of fullResponse.match(/[3 backticks]json\s*([\s\S]*?)\s*[3 backticks]/)
\* on a text of characters, null when there is no match: what stands between
\* the first json opening that three backticks follow and those backticks,
\* without the whitespace on either side
jsonMatchGroup(text) ==
    LET open == <<Tick, Tick, Tick, Json>>
        starts == {i \in 1..Len(text) :
                      At(text, i, open) /\ indexOf(text, endMarker, i + Len(open)) # 0}
    IN  IF starts = {}
        THEN null
        ELSE LET i == Min(starts)
                 e == indexOf(text, endMarker, i + Len(open))
             IN  TrimStart(TrimEnd(SubSeq(text, i + Len(open), e - 1)))

BlocksNext == \E delta \in BlockDeltas : AppendDelta(delta)

BlocksSpec == Init /\ [][BlocksNext]_vars

---------------------------------------------------------------------------
(* DocumentPreview *)

\* A click is handled, rendered and followed by the effects it causes in
\* one step: React runs the effects of a render that a click has caused
\* before it returns to the event loop, and runs the effects still due
\* before that render.  After a render that a new prop has caused, the
\* effect runs later: the timer of the effect before may fire first.
\* window.confirm answered with no, and handleManualEdit on a document above
\* the limit, change nothing and are left out.
MaxHtml == 3
MaxTyped == 2

\* const isTooLarge
isTooLarge(content) == content.large

\* The parent passes a longer html: the block has grown.
NewHtml ==
    /\ initialHtml.n < MaxHtml
    /\ \E large \in BOOLEAN :
         /\ initialHtml.large => large
         /\ initialHtml' = Content("ai", initialHtml.n + 1, large)
    /\ effectDue' = TRUE
    /\ UNCHANGED <<appVars, streamVars, renderVars, renderedContent, isEditing,
                   hasUserEdited, timer, innerHTML, nTyped>>

\* The effect runs after a render with a new prop (lines 18-25).
EffectRuns ==
    /\ effectDue
    /\ timer' = RunEffect(initialHtml, isEditing, hasUserEdited)
    /\ effectDue' = FALSE
    /\ UNCHANGED <<appVars, streamVars, renderVars, initialHtml, renderedContent,
                   isEditing, hasUserEdited, innerHTML, nTyped>>

\* The timer fires: setRenderedContent(initialHtml) with the html of the
\* render that set the timer (line 21); the page shows the new content.
TimerFires ==
    /\ timer # NoTimer
    /\ renderedContent' = timer
    /\ innerHTML' = timer
    /\ timer' = NoTimer
    /\ UNCHANGED <<appVars, streamVars, renderVars, initialHtml, isEditing,
                   hasUserEdited, effectDue, nTyped>>

\* handleManualEdit, the button Edit Manually, shown while not editing
handleManualEdit ==
    /\ ~isEditing
    /\ ~isTooLarge(renderedContent)
    /\ isEditing' = TRUE
    /\ timer' = RunEffect(initialHtml, TRUE, hasUserEdited)
    /\ effectDue' = FALSE
    /\ UNCHANGED <<appVars, streamVars, renderVars, initialHtml, renderedContent,
                   hasUserEdited, innerHTML, nTyped>>

\* The user types into the page, which is contentEditable while editing.
UserTypes ==
    /\ isEditing
    /\ nTyped < MaxTyped
    /\ nTyped' = nTyped + 1
    /\ \E large \in BOOLEAN : innerHTML' = Content("user", nTyped + 1, large)
    /\ UNCHANGED <<appVars, streamVars, renderVars, initialHtml, renderedContent,
                   isEditing, hasUserEdited, timer, effectDue>>

\* handleSaveManualEdit, the button Save Changes, shown while editing.
\* containerRef.current is the page, which is rendered unless the content
\* is above the limit.
handleSaveManualEdit ==
    /\ isEditing
    /\ IF ~isTooLarge(renderedContent)
       THEN /\ renderedContent' = innerHTML
            /\ hasUserEdited' = TRUE
       ELSE UNCHANGED <<renderedContent, hasUserEdited>>
    /\ isEditing' = FALSE
    /\ timer' = RunEffect(initialHtml, FALSE, hasUserEdited')
    /\ effectDue' = FALSE
    /\ UNCHANGED <<appVars, streamVars, renderVars, initialHtml, innerHTML, nTyped>>

\* handleDiscardEdits, the button Discard Edits, shown while the content is
\* the user's and not being edited, with window.confirm answered with yes
handleDiscardEdits ==
    /\ hasUserEdited /\ ~isEditing
    /\ renderedContent' = initialHtml
    /\ innerHTML' = initialHtml
    /\ hasUserEdited' = FALSE
    /\ isEditing' = FALSE
    /\ timer' = RunEffect(initialHtml, FALSE, FALSE)
    /\ effectDue' = FALSE
    /\ UNCHANGED <<appVars, streamVars, renderVars, initialHtml, nTyped>>

DocNext ==
    \/ NewHtml
    \/ EffectRuns
    \/ TimerFires
    \/ handleManualEdit
    \/ UserTypes
    \/ handleSaveManualEdit
    \/ handleDiscardEdits

DocSpec == Init /\ [][DocNext]_vars

---------------------------------------------------------------------------
(* Exchanges, as the properties speak of them *)

\* the exchanges in flight: the tasks that wait for their stream
InFlight == {t \in Tasks : tasks[t].pc = "run"}

\* task t starts an exchange in this step
SendStarts(t) == tasks[t].kind = "none" /\ tasks'[t].kind = "send"
RunStarts(t) == tasks[t].kind = "none" /\ tasks'[t].kind = "plan"
StepStarts(t) ==
    /\ tasks'[t].kind = "plan" /\ tasks'[t].pc = "run"
    /\ tasks[t].pc # "run" \/ tasks[t].i # tasks'[t].i

\* the user has signalled stop on the controller of task t
StopSignalled(t) == t \in aborted

\* the messages of the transcript msgs with identifier id
WithId(msgs, id) == {k \in 1..Len(msgs) : msgs[k].id = id}

EndsWith(text, lexeme) == text # <<>> /\ text[Len(text)] = lexeme

---------------------------------------------------------------------------
(* C1 *)

\* C1: at most one exchange is in flight at any time: handleSendMessage
\* starts an exchange only when the state is idle and no other exchange is
\* in flight, whichever way the user invokes it.
C1_SendOnlyWhenIdle ==
    [][\A t \in Tasks : SendStarts(t) => appState = "idle" /\ InFlight = {}]_vars

---------------------------------------------------------------------------
(* C2, C3 *)

\* C2: once the user has signalled stop on the initial exchange, a step of
\* that exchange consumes no delta, leaves its transcript message as it is,
\* and changes neither the sent files, the plan nor the state.
C2_NoDeltaAfterStop ==
    [][\A t \in Tasks :
          (tasks[t].kind = "send" /\ tasks[t].pc = "run" /\ StopSignalled(t)
             /\ tasks'[t] # tasks[t])
          => /\ tasks'[t].resp = tasks[t].resp \/ tasks'[t].pc # "run"
             /\ messages' = messages
             /\ sentFileNames' = sentFileNames
             /\ currentPlan' = currentPlan
             /\ appState' = appState]_vars

\* C3: a transcript entry that ends with the stopped marker keeps exactly
\* its text in every later state.
C3_StoppedTextKept ==
    [][\A k \in 1..Len(messages) :
          EndsWith(messages[k].text, StoppedByUser)
          => \A j \in WithId(messages', messages[k].id) :
                 messages'[j].text = messages[k].text]_vars

---------------------------------------------------------------------------
(* C4, C5 *)

\* C4: once the user has signalled stop during a step of a plan, the run
\* starts no further step and the state does not become completed.
C4_StopHaltsPlan ==
    [][\A t \in Tasks :
          (tasks[t].kind = "plan" /\ tasks[t].pc = "run" /\ StopSignalled(t))
          => ~StepStarts(t) /\ appState' # "completed"]_vars

\* C5: at most one exchange of a plan step is in flight at any time.
C5_OneStepInFlight ==
    Cardinality({t \in InFlight : tasks[t].kind = "plan"}) <= 1

---------------------------------------------------------------------------
(* C6 *)

\* the exchange of the step that the run t is at fails in this step
StepFails(t) ==
    tasks[t].kind = "plan" /\ tasks[t].pc = "run" /\ tasks'[t].pc = "failed"

\* C6: when the exchange of step k of a run fails, the state becomes idle,
\* the message of step k is marked errored and streams no more, the
\* transcript holds one message of the run for each of the steps 1..k (none
\* twice, and all of them unless a new file set has restarted the transcript
\* during the run) and none for a later step, and the run, once failed,
\* neither moves nor adds a message.
C6_StepFailureHalts ==
    [][\A t \in Tasks :
          /\ StepFails(t) =>
               LET k == tasks[t].i + 1
               IN  /\ appState' = "idle"
                   /\ \A j \in WithId(messages', tasks[t].msgId) :
                          messages'[j].isError /\ ~messages'[j].isStreaming
                   /\ \A n \in 1..Len(tasks[t].plan.steps) :
                        LET held == Cardinality(WithId(messages', uuidv4(t, n)))
                        IN  /\ n > k => held = 0
                            /\ n <= k => held <= 1
                            /\ (n <= k /\ tasks[t].sess = sessionNo) => held = 1
          /\ tasks[t].pc = "failed" =>
               /\ tasks'[t] = tasks[t]
               /\ \A n \in 1..MaxEvents :
                      Cardinality(WithId(messages', uuidv4(t, n)))
                          <= Cardinality(WithId(messages, uuidv4(t, n)))]_vars

\* A run has failed at its step 2: the message of step 1 is in the
\* transcript without an error flag, that of step 2 is errored, the state is
\* idle.
C6_Witness ==
    \E t \in Tasks :
        /\ tasks[t].kind = "plan" /\ tasks[t].pc = "failed"
        /\ appState = "idle"
        /\ \E j \in WithId(messages, uuidv4(t, 1)) :
               ~messages[j].isError /\ ~messages[j].isStreaming
        /\ \E j \in WithId(messages, uuidv4(t, 2)) :
               messages[j].isError /\ EndsWith(messages[j].text, "API Error")
        /\ WithId(messages, uuidv4(t, 3)) = {}

---------------------------------------------------------------------------
(* C7, C8 *)

\* C7: the state completed is passed through: when no exchange is in flight
\* that could still move the state, the state is not completed.
C7_CompletedIsTransient == appState = "completed" => InFlight # {}

\* C8: a run of a plan starts only in the state waiting_approval.
C8_ApproveOnlyWhenAwaiting ==
    [][\A t \in Tasks : RunStarts(t) => appState = "waiting_approval"]_vars

---------------------------------------------------------------------------
(* C9 *)

\* C9: cancel on a plan that is pending approval makes the state idle, holds
\* no plan any more and appends exactly one message, the cancellation
\* notice; and no exchange of a step of a plan that was cancelled so is
\* started.
C9_CancelDiscardsPlan ==
    [][/\ cancelled' # cancelled =>
            /\ appState = "waiting_approval"
            /\ appState' = "idle"
            /\ currentPlan' = NoPlan
            /\ Len(messages') = Len(messages) + 1
            /\ SubSeq(messages', 1, Len(messages)) = messages
            /\ messages'[Len(messages')].text = <<PlanCancelled>>
       /\ \A t \in Tasks : StepStarts(t) => tasks'[t].plan.oid \notin cancelled']_vars

\* A pending plan was cancelled, its card is still shown and the user can
\* still click approve on it.
C9_Witness ==
    /\ cancelled # {}
    /\ PlanCardShown
    /\ nEvents < MaxEvents
    /\ appState = "idle" /\ currentPlan = NoPlan
    /\ EndsWith(messages[Len(messages)].text, PlanCancelled)

---------------------------------------------------------------------------
(* C10 *)

\* the stream of the send t has ended and its reply holds a closed json
\* block that JSON.parse rejects
ParseFails(t) ==
    /\ tasks[t].kind = "send" /\ tasks[t].pc = "run" /\ tasks[t].stream = <<>>
    /\ tasks'[t].pc = "done"
    /\ JsonMatch(tasks[t].resp).found
    /\ ~JSONParse(JsonMatch(tasks[t].resp).group, t).ok

---------------------------------------------------------------------------
(* C11 *)

\* the function of the send t returns in this step, its stream at its end
SendReturns(t) ==
    tasks[t].kind = "send" /\ tasks[t].pc = "run" /\ tasks'[t].pc = "done"

\* C11: when a send returns and leaves the state waiting_approval, its reply
\* holds a json block that parses to an object with a title and a
\* sequence of steps that is not empty, and that object is the plan held.
C11_OnlyValidPlanAwaits ==
    [][\A t \in Tasks :
          (SendReturns(t) /\ appState' = "waiting_approval") =>
              LET jsonMatch == JsonMatch(tasks[t].resp)
                  parsed == JSONParse(jsonMatch.group, t)
              IN  /\ jsonMatch.found /\ parsed.ok
                  /\ parsed.value # NoPlan
                  /\ parsed.value.title # ""
                  /\ parsed.value.steps # <<>>
                  /\ currentPlan' = parsed.value]_vars

---------------------------------------------------------------------------
(* C15, C16 *)

\* C15: the text of a transcript message that streams no more is the same
\* in the next state.
C15_TextFrozenAfterStreaming ==
    [][\A k \in 1..Len(messages) :
          ~messages[k].isStreaming
          => \A j \in WithId(messages', messages[k].id) :
                 messages'[j].text = messages[k].text]_vars

\* C16: the transcript holds at most one message that streams.
C16_OneStreamingMessage ==
    Cardinality({k \in 1..Len(messages) : messages[k].isStreaming}) <= 1

---------------------------------------------------------------------------
(* C17, C18 *)

\* what the exchange of task t has received: the deltas in their order,
\* after the header of the step for a step of a plan
Received(t) ==
    IF tasks[t].kind = "plan" THEN StepText(t, tasks[t].resp) ELSE tasks[t].resp

IsPrefix(p, text) == Len(p) <= Len(text) /\ SubSeq(text, 1, Len(p)) = p

\* the exchange of task t fails in this step
ExchangeFails(t) == tasks[t].pc = "run" /\ tasks'[t].pc = "failed"

\* the stream of the exchange of task t ends in this step
StreamEnds(t) ==
    /\ tasks[t].pc = "run" /\ tasks[t].stream = <<>>
    /\ tasks'[t] # tasks[t] /\ tasks'[t].pc # "failed"

\* C17: when an exchange fails after it has received deltas, the state
\* becomes idle and its message is errored, streams no more and has as its
\* text all that was received followed by the error marker.
C17_FailureKeepsDeltas ==
    [][\A t \in Tasks :
          (ExchangeFails(t) /\ tasks[t].resp # <<>>) =>
              /\ appState' = "idle"
              /\ \A j \in WithId(messages', tasks[t].msgId) :
                     /\ messages'[j].isError /\ ~messages'[j].isStreaming
                     /\ IsPrefix(Received(t), messages'[j].text)
                     /\ Len(messages'[j].text) > Len(Received(t))]_vars

\* C18 as stated: when the stream of an exchange ends, the text of its
\* message is all that was received, whichever display updates were skipped.
C18_StreamEndShowsAllDeltas ==
    [][\A t \in Tasks :
          StreamEnds(t) =>
              \A j \in WithId(messages', tasks[t].msgId) :
                  messages'[j].text = Received(t)]_vars

\* the reply of the send t holds a closed json block that parses
ReplyParses(t) ==
    /\ tasks[t].kind = "send"
    /\ JsonMatch(tasks[t].resp).found
    /\ JSONParse(JsonMatch(tasks[t].resp).group, t).ok

\* C18 amended: when the stream of an exchange ends, the text of its message
\* is all that was received, whichever display updates were skipped; for a
\* reply whose json block parses, it is all that was received with that
\* block cut out.
C18_StreamEndShowsAllDeltasButPlan ==
    [][\A t \in Tasks :
          StreamEnds(t) =>
              \A j \in WithId(messages', tasks[t].msgId) :
                  messages'[j].text = IF ReplyParses(t)
                                      THEN ReplaceJson(Received(t))
                                      ELSE Received(t)]_vars

\* Two deltas of a reply were received and neither was displayed: the
\* message of the exchange in flight is still empty.
C18_Witness ==
    \E t \in Tasks :
        /\ tasks[t].kind = "send" /\ tasks[t].pc = "run" /\ tasks[t].stream = <<>>
        /\ tasks[t].resp = <<"x", FenceJson, PlanJson>>
        /\ \E j \in WithId(messages, tasks[t].msgId) :
               messages[j].text = <<>> /\ messages[j].isStreaming

---------------------------------------------------------------------------
(* C12, C13 *)

\* the attempts that the call has started
Started ==
    Len(outcomes) + IF smPc \in {"upload", "request", "stream"} THEN 1 ELSE 0

\* C12: a call starts at most three attempts, each but the first after an
\* attempt that failed transiently; a call that returns has made one attempt
\* more than have failed and has thrown nothing; a call that throws a
\* transient failure has made three attempts.
C12_RetryPolicy ==
    /\ Started <= maxAttempts
    /\ \A k \in 1..(Started - 1) : Transient(outcomes[k])
    /\ smPc = "returned" =>
          /\ thrown = ""
          /\ Started = Cardinality({k \in 1..Len(outcomes) : outcomes[k] # "ok"}) + 1
    /\ (smPc = "thrown" /\ Transient(outcomes[Len(outcomes)])) => Started = maxAttempts

\* the user-facing error of a failure that is not transient
UserFacing(kind) ==
    IF kind = "safety" THEN "Safety Filter Triggered"
    ELSE IF kind = "token_limit" THEN "Token Limit Exceeded"
    ELSE "Payload Too Large"

\* C13: an attempt that fails with a content-safety rejection, a payload
\* too large or a token limit is the last attempt of the call, and the call
\* has thrown the user-facing error of that kind.
C13_NonTransientNotRetried ==
    \A k \in 1..Len(outcomes) :
        outcomes[k] \in {"safety", "payload_too_large", "token_limit"} =>
            /\ k = Len(outcomes)
            /\ smPc = "thrown"
            /\ thrown = UserFacing(outcomes[k])

---------------------------------------------------------------------------
(* C14 *)

\* an attempt begins in this step: the first, or a retry after its delay
AttemptBegins == smPc \in {"idle", "delay"} /\ smPc' \in {"upload", "request"}

\* a call of uploadToGemini begins in this step
UploadBegins == smPc' = "upload" /\ <<smPc, attempt, fileIx>> # <<smPc', attempt', fileIx'>>

\* C14: once the abort is signalled, the call begins no attempt and no
\* upload.
C14_NoWorkAfterCancel ==
    [][signalled => ~AttemptBegins /\ ~UploadBegins]_vars

---------------------------------------------------------------------------
(* C19 *)

\* C19: the chunks yielded to the caller by one call are those of a single
\* attempt, and the whole reply of that attempt once the call has returned.
C19_OneAttemptYields ==
    /\ \A i, j \in 1..Len(yielded) : yielded[i].attempt = yielded[j].attempt
    /\ smPc = "returned" =>
          [k \in 1..Len(yielded) |-> yielded[k].text]
              = SelectSeq(AttemptReply, LAMBDA c : c # "")

---------------------------------------------------------------------------
(* C20 *)

\* C20 as stated: in the attempt under way, a file under 9 MB is an inline
\* part and was not uploaded; a file of 9 MB or more was uploaded before it
\* became a part and, when the upload succeeded, is a file reference.
C20_RoutingFromThreshold ==
    /\ \A u \in uploads : smFiles[u.file] >= InlineThresholdMB
    /\ smPc = "upload" => smFiles[fileIx + 1] >= InlineThresholdMB
    /\ \A k \in 1..Len(parts) :
          /\ smFiles[k] < InlineThresholdMB => parts[k] = inlineData(k)
          /\ smFiles[k] >= InlineThresholdMB =>
                \E u \in uploads : u.file = k /\ (u.ok => parts[k] = fileData(k))

\* C20 amended: in the attempt under way, a file of at most 9 MB is an
\* inline part and was not uploaded; a file above 9 MB was uploaded before
\* it became a part and, when the upload succeeded, is a file reference.
C20_RoutingAboveThreshold ==
    /\ \A u \in uploads : smFiles[u.file] > InlineThresholdMB
    /\ smPc = "upload" => smFiles[fileIx + 1] > InlineThresholdMB
    /\ \A k \in 1..Len(parts) :
          /\ smFiles[k] <= InlineThresholdMB => parts[k] = inlineData(k)
          /\ smFiles[k] > InlineThresholdMB =>
                \E u \in uploads : u.file = k /\ (u.ok => parts[k] = fileData(k))

\* The request of an attempt is ready with a file of exactly 9 MB inline
\* and a file of 10 MB, uploaded with success, as a file reference.
C20_Witness ==
    /\ smPc = "request"
    /\ smFiles = <<9, 10>>
    /\ parts = <<inlineData(1), fileData(2)>>
    /\ uploads = {[file |-> 2, ok |-> TRUE]}

---------------------------------------------------------------------------
(* C21, C22 *)

\* the call of uploadToGemini that is under way fails in this step
UploadFails ==
    /\ smPc = "upload"
    /\ \/ Len(outcomes') > Len(outcomes)
       \/ [file |-> fileIx + 1, ok |-> FALSE] \in uploads'

\* C21: when the upload of a file fails, a file under 18 MB becomes an
\* inline part and the attempt goes on; for any other file the call throws
\* the attachment-too-large error, and so sends no request with that file.
C21_FallbackOrTooLarge ==
    [][UploadFails =>
          IF smFiles[fileIx + 1] < InlineFallbackMB
          THEN /\ Len(parts') > fileIx /\ parts'[fileIx + 1] = inlineData(fileIx + 1)
               /\ smPc' \in {"upload", "request"}
               /\ outcomes' = outcomes
          ELSE /\ smPc' = "thrown"
               /\ thrown' = AttachmentTooLarge]_vars

\* C22: an attempt that fails because a file is too large is the last
\* attempt of the call: the call has thrown.
C22_TooLargeNotRetried ==
    \A k \in 1..Len(outcomes) :
        outcomes[k] = "attachment_too_large" => k = Len(outcomes) /\ smPc = "thrown"

---------------------------------------------------------------------------
(* C23 *)

\* C23: a send does not include, in the files of its request, a file whose
\* name was transmitted in this conversation and not removed since.
C23_NoResend ==
    [][\A t \in Tasks :
          SendStarts(t) => Range(tasks'[t].filesToSend) \cap transmitted = {}]_vars

---------------------------------------------------------------------------
(* C24 *)

\* C24: when files are selected while no file is held, the state becomes
\* idle, no plan is held, the model session and the set of the sent files
\* are cleared and the transcript is the upload notice alone.
C24_NewFileSetResets ==
    [][sessionNo' # sessionNo =>
          /\ appState' = "idle"
          /\ currentPlan' = NoPlan
          /\ chatSession' = FALSE
          /\ sentFileNames' = {}
          /\ Len(messages') = 1 /\ messages'[1].text = <<Uploaded>>]_vars

--------------------------------------------------------------------------------
(* C25 *)

\* C25: while the html block of a growing text is open, before and after
\* an append, the content extractHtml returned before the append is a
\* prefix of the content it returns after it.
C25_OpenContentGrows ==
    [][(HtmlOpen(MsgChars) /\ HtmlOpen(MsgChars'))
       => IsPrefix(extractHtml(MsgChars), extractHtml(MsgChars'))]_vars

\* An open block whose content has grown by three appends, the last two
\* of them the start of a fence.
C25_Witness ==
    HtmlOpen(MsgChars) /\ extractHtml(MsgChars) = <<"x", Tick, Tick>>

---------------------------------------------------------------------------
(* C26 *)

\* C26: once the block is closed, an append leaves it closed and leaves
\* the content extractHtml returns as it was.
C26_ClosedContentStable ==
    [][HtmlClosed(MsgChars)
       => /\ HtmlClosed(MsgChars')
          /\ extractHtml(MsgChars') = extractHtml(MsgChars)]_vars

\* A closed block with content, and after its closing fence a further
\* three backticks.
C26_Witness ==
    /\ HtmlClosed(MsgChars) /\ extractHtml(MsgChars) = <<"x">>
    /\ indexOf(MsgChars, endMarker, endIndex(MsgChars) + Len(endMarker)) # 0

---------------------------------------------------------------------------
(* C27 *)

\* C27: the content extractHtml returns for a closed block neither starts
\* nor ends with whitespace.
C27_ClosedContentTrimmed ==
    HtmlClosed(MsgChars)
    => LET content == extractHtml(MsgChars)
       IN  content = <<>> \/ (content[1] # Space /\ content[Len(content)] # Space)

---------------------------------------------------------------------------
(* C28 *)

\* C28: the displayed text is the text without one block: without the
\* first closed html block if there is one, else without the unterminated
\* block from its opening marker to the end, else the text itself.
C28_StripsExactlyOneBlock ==
    LET text == MsgChars
        opens == {i \in 1..Len(text) : At(text, i, startMarker)}
        closed == {i \in opens : indexOf(text, endMarker, i + Len(startMarker)) # 0}
    IN  displayFullText(text) =
            IF closed # {}
            THEN SubSeq(text, 1, Min(closed) - 1)
                 \o SubSeq(text, indexOf(text, endMarker, Min(closed) + Len(startMarker))
                                     + Len(endMarker), Len(text))
            ELSE IF opens # {}
                 THEN SubSeq(text, 1, Min(opens) - 1)
                 ELSE text

---------------------------------------------------------------------------
(* C29 *)

\* C29: for a text with one html opening marker, whose block is closed,
\* the displayed text is the text without the block, and the displayed
\* text of that is itself.
C29_StripIdempotent ==
    LET text == MsgChars
        opens == {i \in 1..Len(text) : At(text, i, startMarker)}
    IN  (Cardinality(opens) = 1 /\ HtmlClosed(text))
        => /\ displayFullText(text) =
                 SubSeq(text, 1, HtmlMatch(text) - 1)
                 \o SubSeq(text, endIndex(text) + Len(endMarker), Len(text))
           /\ displayFullText(displayFullText(text)) = displayFullText(text)

----------------------------------------------------------------------
(* C30 *)

\* text holds a json opening and, after it, three backticks
ClosedJsonBlock(text) ==
    \E o \in 1..Len(text) : text[o] = FenceJson /\ \E c \in (o + 1)..Len(text) : IsFence(text[c])

\* C30: the state becomes waiting_approval, and a plan is installed, only
\* in the step in which a send returns whose stream has ended and whose
\* reply holds a closed json block.
C30_PlanReadAfterStreamEnd ==
    [][(\/ appState' = "waiting_approval" /\ appState # "waiting_approval"
        \/ currentPlan' # currentPlan /\ currentPlan' # NoPlan)
       => \E t \in Tasks :
              /\ SendReturns(t)
              /\ tasks[t].stream = <<>>
              /\ ClosedJsonBlock(tasks[t].resp)]_vars

\* A reply whose json block was never closed has streamed to its end: the
\* send has returned, the message shows the reply as it came, and the state
\* is idle with no plan.
C30_Witness ==
    \E t \in Tasks :
        /\ tasks[t].kind = "send" /\ tasks[t].pc = "done"
        /\ appState = "idle" /\ currentPlan = NoPlan
        /\ \E j \in WithId(messages, uuidv4(t, 1)) :
               /\ messages[j].text = <<"x", FenceJson, PlanJson>>
               /\ ~messages[j].isStreaming /\ messages[j].planData = NoPlan

---------------------------------------------------------------------------
(* C31 *)

\* the stop button is handled in this step
StopClicked ==
    /\ nEvents' # nEvents /\ Len(messages') = Len(messages)
    /\ appState \notin {"idle", "waiting_approval"} /\ appState' = "idle"

\* C31: in the step in which a step of a run fails, and in the step in
\* which the stop button is handled while a step of a run is streaming,
\* the messages of the steps the run has completed before stay in their
\* places with the text and the flags they had.
C31_CompletedStepsKept ==
    [][\A t \in Tasks :
          ((tasks[t].kind = "plan" /\ tasks[t].pc = "run") /\ (StepFails(t) \/ StopClicked))
          => \A n \in 1..tasks[t].i :
                 \A j \in WithId(messages, uuidv4(t, n)) :
                     j <= Len(messages') /\ messages'[j] = messages[j]]_vars

\* A run has failed at its step 2 after the stop button was handled during
\* that step: the message of step 1 holds its header and the two deltas of
\* its reply, and no mark of the stop or of the failure.
C31_Witness ==
    \E t \in Tasks :
        /\ tasks[t].kind = "plan" /\ tasks[t].pc = "failed" /\ t \in aborted
        /\ \E j \in WithId(messages, uuidv4(t, 1)) :
               /\ messages[j].text = StepHeader(1, "a") \o <<"s1", "s2">>
               /\ ~messages[j].isError /\ ~messages[j].isStreaming
        /\ \E j \in WithId(messages, uuidv4(t, 2)) : messages[j].isError

---------------------------------------------------------------------------
(* C32 *)

\* C32: extractHtml returns null exactly when the text holds no html
\* opening marker; when it holds one and no three backticks come after the
\* first, extractHtml returns what is left of the text after that marker
\* and the whitespace that follows it.
C32_NullOrRemainder ==
    LET text == MsgChars
        opens == {i \in 1..Len(text) : At(text, i, startMarker)}
        after == Min(opens) + Len(startMarker)
    IN  /\ extractHtml(text) = null <=> opens = {}
        /\ (opens # {} /\ \A i \in after..Len(text) : ~At(text, i, endMarker))
           => \E k \in after..(Len(text) + 1) :
                  /\ \A i \in after..(k - 1) : text[i] = Space
                  /\ k <= Len(text) => text[k] # Space
                  /\ extractHtml(text) = SubSeq(text, k, Len(text))

\* Prose, the opening marker, a space and the start of the content: the
\* content is what follows the space.
C32_Witness ==
    /\ MsgChars = <<"x", Space>> \o startMarker \o <<Space, "x">>
    /\ extractHtml(MsgChars) = <<"x">>

---------------------------------------------------------------------------
(* C33 *)

\* C33: for a reply with one json opening and one html opening, each
\* closed by three backticks before the other begins, extractHtml returns
\* the content of the html block, on the reply and on the reply with its
\* json block taken out, and the json match gives the content of the json
\* block: in both, what stands between the opening and the three backticks
\* that close it, the whitespace next to the fences aside.
C33_BlocksIndependent ==
    LET text == MsgChars
        jsonOpens == {i \in 1..Len(text) : At(text, i, <<Tick, Tick, Tick, Json>>)}
        htmlOpens == {i \in 1..Len(text) : At(text, i, startMarker)}
        j == Min(jsonOpens)
        h == Min(htmlOpens)
        jsonEnd == Min({e \in (j + 4)..Len(text) : At(text, e, endMarker)})
        htmlEnd == Min({e \in (h + 4)..Len(text) : At(text, e, endMarker)})
        htmlBlock == TrimStart(TrimEnd(SubSeq(text, h + 4, htmlEnd - 1)))
        jsonBlock == TrimStart(TrimEnd(SubSeq(text, j + 4, jsonEnd - 1)))
    IN  (/\ Cardinality(jsonOpens) = 1 /\ Cardinality(htmlOpens) = 1
         /\ \E e \in (j + 4)..Len(text) : At(text, e, endMarker)
         /\ \E e \in (h + 4)..Len(text) : At(text, e, endMarker)
         /\ jsonEnd + 3 <= h \/ htmlEnd + 3 <= j)
        => /\ TrimStart(TrimEnd(extractHtml(text))) = htmlBlock
           /\ TrimStart(TrimEnd(extractHtml(replaceBlock(text, Json)))) = htmlBlock
           /\ TrimStart(TrimEnd(jsonMatchGroup(text))) = jsonBlock

\* A json block and then an html block, each closed and each with its own
\* content: either scan returns the content of its block.
C33_Witness ==
    /\ MsgChars = <<Tick, Tick, Tick, Json, "x">> \o endMarker
                     \o startMarker \o <<"y">> \o endMarker
    /\ extractHtml(MsgChars) = <<"y">>
    /\ jsonMatchGroup(MsgChars) = <<"x">>

---------------------------------------------------------------------------
(* C34 *)

\* C34: while the state is idle no exchange is in flight: no task waits
\* for the stream of a request or of a step.
C34_IdleMeansQuiet == appState = "idle" => InFlight = {}

---------------------------------------------------------------------------
(* C35 *)

\* C35: while the state is waiting_approval a plan is held and a plan card,
\* with its approve and cancel buttons, is shown.
C35_AwaitingHasPlanCard ==
    appState = "waiting_approval" => (currentPlan # NoPlan /\ PlanCardShown)

---------------------------------------------------------------------------
(* C36 *)

\* C36: while the state is idle no plan is held and executionStep is 0.
C36_IdleHoldsNoPlan ==
    appState = "idle" => (currentPlan = NoPlan /\ executionStep = 0)

---------------------------------------------------------------------------
(* C37 *)

\* C37: in the step in which an append closes the html block, the content
\* extractHtml returned before the append is a prefix of the content it
\* returns after it.
C37_OpenContentIsPrefixOfClosed ==
    [][(HtmlOpen(MsgChars) /\ HtmlClosed(MsgChars'))
       => IsPrefix(extractHtml(MsgChars), extractHtml(MsgChars'))]_vars

---------------------------------------------------------------------------
(* C38 *)

\* C38: a held file that the set of the sent files names has had a request
\* answered by the service in the conversation that the latest new file
\* set began: a send leaves out no file that this conversation has not been
\* given.
C38_SentOnlyInThisSession == (sentFileNames \cap Range(files)) \subseteq transmitted

---------------------------------------------------------------------------
(* C39 *)

\* C39: the notice of a cancellation is appended to the transcript only
\* in a step taken while the state is waiting_approval and a plan is held
\* that no earlier cancellation has discarded.
C39_CancelOnlyWhilePending ==
    [][(/\ Len(messages') = Len(messages) + 1
        /\ messages'[Len(messages')].text = <<PlanCancelled>>)
       => /\ appState = "waiting_approval"
          /\ currentPlan # NoPlan
          /\ currentPlan.oid \notin cancelled]_vars

---------------------------------------------------------------------------
(* C40 *)

\* C40: while the content is being edited, or is the user's saved content,
\* renderedContent changes only in a step that saves the page as the user
\* has left it or that discards the user's content for the html of the
\* parent.
C40_UserContentKept ==
    [][((isEditing \/ hasUserEdited) /\ renderedContent' # renderedContent)
       => \/ isEditing /\ ~isEditing' /\ hasUserEdited' /\ renderedContent' = innerHTML
          \/ /\ hasUserEdited /\ ~isEditing /\ ~hasUserEdited'
             /\ renderedContent' = initialHtml]_vars

\* The user has typed and saved; after that the parent has passed a longer
\* html, whose effect has not run yet, and the rendered content is the
\* user's.
C40_Witness ==
    /\ hasUserEdited /\ ~isEditing /\ effectDue
    /\ renderedContent.by = "user"
    /\ initialHtml.n > 1

=============================================================================
